---- MODULE Spec2Model ----
(***************************************************************************)
(* A model of hyprDrover: the Hyprland command client                       *)
(* (src/ipc/hypr_commands.rs), the event decoder and listener               *)
(* (src/ipc/hypr_listener.rs), the restoration orchestrator                 *)
(* (src/restore/mod.rs) and the command demo of src/main.rs.                *)
(*                                                                         *)
(* Text is a sequence of one-character strings, so that formatting,        *)
(* lower-casing and splitting are computed character by character.         *)
(***************************************************************************)
EXTENDS Integers, Sequences, FiniteSets, TLC

\* ------------------------------------------------------------------ bounds
\* longest snapshot (saved client descriptors) of a restoration run
MaxSaved == 2
\* largest live-window set the compositor reports
MaxLive == 2
\* how many times the process environment is changed during a run
MaxEnvChanges == 1
\* how many lines the event peer sends before it stops
MaxLines == 3
\* longest data part of a line handed to the decoder on its own
MaxData == 4

\* ------------------------------------------------------------------ text
UpperChars == <<"A","B","C","D","E","F","G","H","I","J","K","L","M",
                "N","O","P","Q","R","S","T","U","V","W","X","Y","Z">>
LowerChars == <<"a","b","c","d","e","f","g","h","i","j","k","l","m",
                "n","o","p","q","r","s","t","u","v","w","x","y","z">>
DigitChars == <<"0","1","2","3","4","5","6","7","8","9">>

\* char::to_lowercase on the ASCII letters
LowerChar(c) ==
    IF \E k \in 1..26 : UpperChars[k] = c
    THEN LowerChars[CHOOSE k \in 1..26 : UpperChars[k] = c]
    ELSE c

\* str::to_lowercase
to_lowercase(s) == [k \in 1..Len(s) |-> LowerChar(s[k])]

RECURSIVE FormatNat(_)
FormatNat(n) ==
    IF n < 10 THEN <<DigitChars[n + 1]>>
    ELSE FormatNat(n \div 10) \o <<DigitChars[(n % 10) + 1]>>

\* Display of an i32, as format!("{}") writes it
FormatInt(n) == IF n < 0 THEN <<"-">> \o FormatNat(0 - n) ELSE FormatNat(n)

sFirefox == <<"f","i","r","e","f","o","x">>
sCodeCap == <<"C","o","d","e">>
sCode == <<"c","o","d","e">>
sBraveClass == <<"B","r","a","v","e","-","b","r","o","w","s","e","r">>
sBraveBrowser == <<"b","r","a","v","e","-","b","r","o","w","s","e","r">>
sBrave == <<"b","r","a","v","e">>
sGoogleChrome == <<"g","o","o","g","l","e","-","c","h","r","o","m","e">>
sGoogleChromeStable == sGoogleChrome \o <<"-","s","t","a","b","l","e">>
sExecWorkspace == <<"e","x","e","c"," ","[","w","o","r","k","s","p","a","c","e"," ">>
sSilent == <<" ","s","i","l","e","n","t","]"," ">>
sDispatch == <<"d","i","s","p","a","t","c","h"," ">>
sJ == <<"j","/">>
sClients == <<"c","l","i","e","n","t","s">>
sWorkspaces == <<"w","o","r","k","s","p","a","c","e","s">>
sActivewindow == <<"a","c","t","i","v","e","w","i","n","d","o","w">>
sOk == <<"o","k">>
sUnknownRequest == <<"u","n","k","n","o","w","n"," ","r","e","q","u","e","s","t">>
\* a byte that no UTF-8 text contains
BadByte == "0xFF"

\* ------------------------------------------------------------------ state
VARIABLES
    env,                \* the process environment: each variable unset (<<>>) or <<value>>
    envChanges,         \* how many times the environment was changed so far
    prog,               \* which caller runs: "restore" (restore_session) or "demo" (demo_commands)
    pc,                 \* the caller's position
    result,             \* the caller's return value: "running", "Ok" or the error
    snapshot,           \* SessionSnapshot.clients, the saved descriptors in order
    live,               \* the windows the compositor has when the run starts
    available_clients,  \* restore_session's working set
    idx,                \* position of the for loop in snapshot (1-based)
    processed,          \* history: the descriptors whose loop body was entered, in order
    positionCalls,      \* history: the calls of position::restore_window_position,
                        \* each with the live window, the descriptor and the outcome
    dispatchCalls,      \* history: the calls of ipc::dispatch made by restore_session
    notified,           \* the notify-send spawn of the descriptor being launched:
                        \* "none", "spawned" or "failed"
    launchFailed,       \* whether the latest launch printed "Failed to launch"
    client,             \* demo_commands' HyprCommandClient: <<>> or <<socket_path>>
    demoStep,           \* which of demo_commands' three queries is next
    cpc,                \* position inside the current command call
    cur,                \* the current command call
    stream,             \* the UnixStream of the latest send_command: its id, path, the
                        \* operations done on it (ops), the bytes written (sent), the
                        \* bytes the peer answered (recv), whether the read met an
                        \* I/O error (rerr), and whether it is still open
    nconn,              \* how many connections were established so far
    ret,                \* the return value of the latest command call
    firstResolved,      \* history: per caller, <<the first socket path resolved for it>>
    ncalls,             \* history: how many command calls were begun
    lpc,                \* the listener's position
    mode,               \* "listen" or "listen_filtered"
    wire,               \* history: the byte chunks the event peer sent, one per line
    line,               \* the line the loop holds
    event,              \* the decoded event the loop holds
    lineLog,            \* history: the lines the reader yielded
    sinkLog,            \* history: the events the callback was called with
    predLog,            \* history: the events the predicate was called with
    sinkBusy,           \* TRUE while the callback runs
    lresult,            \* listen's return value: "running", "Ok" or "Err"
    accept,             \* listen_filtered's predicate: the event kinds it accepts
    lconns              \* how many connections to the event socket were made

cmdVars == <<env, envChanges, prog, pc, result, snapshot, live, available_clients, idx,
             processed, positionCalls, dispatchCalls, notified, launchFailed,
             client, demoStep, cpc, cur, stream, nconn, ret, firstResolved, ncalls>>
listenVars == <<lpc, mode, wire, line, event, lineLog, sinkLog, predLog, sinkBusy, lresult,
                accept, lconns>>
vars == <<cmdVars, listenVars>>

\* ------------------------------------------------------------------ inputs
\* values of XDG_RUNTIME_DIR and HYPRLAND_INSTANCE_SIGNATURE; all are plain
\* relative path components, for which PathBuf::join appends
RuntimeDirs == {"run"}
Signatures == {"sigA", "sigB"}
Envs == [XDG : {<<>>} \cup {<<d>> : d \in RuntimeDirs},
         SIG : {<<>>} \cup {<<g>> : g \in Signatures}]
InitEnvs == {e \in Envs : e.SIG # <<"sigB">>}

\* saved client descriptors (class, initial_class, title, workspace.id)
SavedPool ==
    { [class |-> sFirefox, initial_class |-> sFirefox, title |-> "Docs", workspace |-> 1],
      [class |-> sCodeCap, initial_class |-> <<>>, title |-> "main.rs", workspace |-> 12],
      [class |-> sBraveClass, initial_class |-> sBraveClass, title |-> "News",
       workspace |-> 0 - 98] }

\* live windows (address, class, title); addresses are unique
LivePool ==
    { [address |-> "0x1", class |-> sFirefox, title |-> "Mail"],
      [address |-> "0x2", class |-> sFirefox, title |-> "Docs"],
      [address |-> "0x3", class |-> sCode, title |-> "main.rs"] }

SeqsUpTo(S, n) == UNION {[1..k -> S] : k \in 0..n}
Snapshots == SeqsUpTo(SavedPool, MaxSaved)
LiveSets == {l \in SeqsUpTo(LivePool, MaxLive) :
                \A a, b \in 1..Len(l) : a # b => l[a].address # l[b].address}

\* what the compositor may answer; the last is not valid UTF-8
PeerReplies == {sOk, sUnknownRequest, <<"o", BadByte>>}

\* ------------------------------------------------------------------ values
Ok(v) == [ok |-> TRUE, kind |-> "Ok", val |-> v]
Err(k, v) == [ok |-> FALSE, kind |-> k, val |-> v]

NoCall == [fn |-> "none", caller |-> "none", arg |-> <<>>, path |-> <<>>, attempts |-> 0]
NoStream == [id |-> 0, path |-> <<>>, ops |-> <<>>, sent |-> <<>>, recv |-> <<>>,
             rerr |-> FALSE, open |-> FALSE]
NoRet == [ok |-> FALSE, kind |-> "none", val |-> <<>>]

envVars == <<env, envChanges>>
callerVars == <<prog, pc, result, snapshot, live, available_clients, idx, processed,
                positionCalls, dispatchCalls, notified, launchFailed, client, demoStep>>
callVars == <<cpc, cur, stream, nconn, ret, firstResolved, ncalls>>

\* ------------------------------------------------------------------ command client
\* HyprCommandClient::get_socket_path: $XDG_RUNTIME_DIR/hypr/$HYPRLAND_INSTANCE_SIGNATURE/.socket.sock
get_socket_path(e) ==
    IF e.XDG = <<>> THEN Err("SocketNotFound", <<"XDG_RUNTIME_DIR not set">>)
    ELSE IF e.SIG = <<>> THEN Err("SocketNotFound", <<"HYPRLAND_INSTANCE_SIGNATURE not set">>)
    ELSE Ok(<<e.XDG[1], "hypr", e.SIG[1], ".socket.sock">>)

\* the text send_command is called with by dispatch, get_json or directly
WireCommand(fn, arg) ==
    CASE fn = "dispatch" -> sDispatch \o arg
      [] fn = "get_json" -> sJ \o arg
      [] OTHER -> arg

\* read_to_string accepts the bytes only when they are UTF-8
Utf8Valid(bytes) == \A k \in 1..Len(bytes) : bytes[k] # BadByte

\* a caller enters the module-level dispatch / get_json (client not yet built)
BeginModuleCall(fn, caller, arg) ==
    /\ cpc' = "new"
    /\ cur' = [fn |-> fn, caller |-> caller, arg |-> arg, path |-> <<>>, attempts |-> 0]
    /\ stream' = NoStream
    /\ ret' = NoRet
    /\ ncalls' = ncalls + 1
    /\ UNCHANGED <<nconn, firstResolved>>

\* a caller enters a method of an existing client, whose socket_path is path
BeginClientCall(fn, caller, arg, path) ==
    /\ cpc' = "connect"
    /\ cur' = [fn |-> fn, caller |-> caller, arg |-> arg, path |-> path, attempts |-> 0]
    /\ stream' = NoStream
    /\ ret' = NoRet
    /\ ncalls' = ncalls + 1
    /\ UNCHANGED <<nconn, firstResolved>>

\* mutant of module_new: an unresolved endpoint is only noticed when connecting
module_new_lazy ==
    /\ cpc = "new"
    /\ LET p == get_socket_path(env) IN
       IF p.ok
       THEN /\ cur' = [cur EXCEPT !.path = p.val]
            /\ cpc' = "connect"
            /\ ret' = ret
            /\ firstResolved' = IF firstResolved[cur.caller] = <<>>
                                THEN [firstResolved EXCEPT ![cur.caller] = <<p.val>>]
                                ELSE firstResolved
       ELSE /\ cur' = cur
            /\ cpc' = "connect"
            /\ ret' = ret
            /\ firstResolved' = firstResolved
    /\ UNCHANGED <<stream, nconn, ncalls, envVars, callerVars, listenVars>>

\* the call's value has been taken by the caller: nothing of the call is left
EndCall ==
    /\ cpc' = "idle"
    /\ cur' = NoCall
    /\ stream' = NoStream
    /\ ret' = NoRet
    /\ UNCHANGED <<nconn, firstResolved, ncalls>>

\* HyprCommandClient::new()? at the head of dispatch / get_json / send_hypr_command
module_new ==
    /\ cpc = "new"
    /\ LET p == get_socket_path(env) IN
       IF p.ok
       THEN /\ cur' = [cur EXCEPT !.path = p.val]
            /\ cpc' = "connect"
            /\ ret' = ret
            /\ firstResolved' = IF firstResolved[cur.caller] = <<>>
                                THEN [firstResolved EXCEPT ![cur.caller] = <<p.val>>]
                                ELSE firstResolved
       ELSE /\ cur' = cur
            /\ cpc' = "ret"
            /\ ret' = p
            /\ firstResolved' = firstResolved
    /\ UNCHANGED <<stream, nconn, ncalls, envVars, callerVars, listenVars>>

\* send_command: UnixStream::connect(&self.socket_path)
send_command_connect ==
    /\ cpc = "connect"
    /\ cur' = [cur EXCEPT !.attempts = @ + 1]
    /\ \E ok \in BOOLEAN :
         IF ok
         THEN /\ nconn' = nconn + 1
              /\ stream' = [id |-> nconn + 1, path |-> cur.path, ops |-> <<"connect">>,
                            sent |-> <<>>, recv |-> <<>>, rerr |-> FALSE, open |-> TRUE]
              /\ cpc' = "write"
              /\ ret' = ret
         ELSE /\ nconn' = nconn
              /\ stream' = stream
              /\ cpc' = "ret"
              /\ ret' = Err("ConnectionFailed", <<>>)
    /\ UNCHANGED <<firstResolved, ncalls, envVars, callerVars, listenVars>>

\* send_command: stream.write_all(command.as_bytes())
send_command_write ==
    /\ cpc = "write"
    /\ LET bytes == WireCommand(cur.fn, cur.arg) IN
       \E ok \in BOOLEAN :
         IF ok
         THEN /\ stream' = [stream EXCEPT !.ops = Append(@, "write"), !.sent = bytes]
              /\ cpc' = "shutdown"
              /\ ret' = ret
         ELSE \E n \in {0, Len(bytes) - 1} :
              /\ stream' = [stream EXCEPT !.ops = Append(@, "write"),
                                          !.sent = SubSeq(bytes, 1, n), !.open = FALSE]
              /\ cpc' = "ret"
              /\ ret' = Err("WriteFailed", <<>>)
    /\ UNCHANGED <<cur, nconn, firstResolved, ncalls, envVars, callerVars, listenVars>>

\* mutant of send_command_shutdown: the write side is left open before the read
send_command_shutdown_skipped ==
    /\ cpc = "shutdown"
    /\ \E ok \in BOOLEAN :
         IF ok
         THEN /\ stream' = stream
              /\ cpc' = "read"
              /\ ret' = ret
         ELSE /\ stream' = [stream EXCEPT !.ops = Append(@, "shutdown"), !.open = FALSE]
              /\ cpc' = "ret"
              /\ ret' = Err("WriteFailed", <<>>)
    /\ UNCHANGED <<cur, nconn, firstResolved, ncalls, envVars, callerVars, listenVars>>

\* send_command: stream.shutdown(Shutdown::Write)
send_command_shutdown ==
    /\ cpc = "shutdown"
    /\ \E ok \in BOOLEAN :
         IF ok
         THEN /\ stream' = [stream EXCEPT !.ops = Append(@, "shutdown")]
              /\ cpc' = "read"
              /\ ret' = ret
         ELSE /\ stream' = [stream EXCEPT !.ops = Append(@, "shutdown"), !.open = FALSE]
              /\ cpc' = "ret"
              /\ ret' = Err("WriteFailed", <<>>)
    /\ UNCHANGED <<cur, nconn, firstResolved, ncalls, envVars, callerVars, listenVars>>

\* mutant of send_command_read: an error-shaped reply is turned into an error
send_command_read_checks ==
    /\ cpc = "read"
    /\ cpc' = "ret"
    /\ \E ioOk \in BOOLEAN, reply \in PeerReplies :
         /\ stream' = [stream EXCEPT !.ops = Append(@, "read"), !.recv = reply,
                                     !.rerr = ~ioOk, !.open = FALSE]
         /\ ret' = IF ioOk /\ Utf8Valid(reply)
                   THEN (IF reply = sUnknownRequest THEN Err("CommandFailed", reply)
                         ELSE Ok(reply))
                   ELSE Err("ReadFailed", <<>>)
    /\ UNCHANGED <<cur, nconn, firstResolved, ncalls, envVars, callerVars, listenVars>>

\* send_command: stream.read_to_string(&mut response), then Ok(response); the
\* stream is dropped when the function returns
send_command_read ==
    /\ cpc = "read"
    /\ cpc' = "ret"
    /\ \E ioOk \in BOOLEAN, reply \in PeerReplies :
         /\ stream' = [stream EXCEPT !.ops = Append(@, "read"), !.recv = reply,
                                     !.rerr = ~ioOk, !.open = FALSE]
         /\ ret' = IF ioOk /\ Utf8Valid(reply) THEN Ok(reply) ELSE Err("ReadFailed", <<>>)
    /\ UNCHANGED <<cur, nconn, firstResolved, ncalls, envVars, callerVars, listenVars>>

\* the host changes XDG_RUNTIME_DIR or HYPRLAND_INSTANCE_SIGNATURE between two
\* statements of the (single-threaded) caller
EnvChange ==
    /\ cpc = "idle"
    /\ result = "running"
    /\ envChanges < MaxEnvChanges
    /\ \E e \in Envs :
         /\ e # env
         /\ e.XDG = env.XDG \/ e.SIG = env.SIG
         /\ env' = e
    /\ envChanges' = envChanges + 1
    /\ UNCHANGED <<callerVars, callVars, listenVars>>

\* ------------------------------------------------------------------ restoration
\* resolve_command: lower-case, then the alias table
resolve_command(class) ==
    LET lower == to_lowercase(class) IN
    CASE lower = sBraveBrowser -> sBrave
      [] lower = sCode -> sCode
      [] lower = sGoogleChrome -> sGoogleChromeStable
      [] OTHER -> lower

\* mutant of position: the last window of the class instead of the first
position_last(clients, saved_client) ==
    IF \E k \in 1..Len(clients) : clients[k].class = saved_client.class
    THEN CHOOSE k \in 1..Len(clients) :
           /\ clients[k].class = saved_client.class
           /\ \A j \in (k + 1)..Len(clients) : clients[j].class # saved_client.class
    ELSE 0

\* available_clients.iter().position(|c| c.class == saved_client.class); 0 is None
position(clients, saved_client) ==
    IF \E k \in 1..Len(clients) : clients[k].class = saved_client.class
    THEN CHOOSE k \in 1..Len(clients) :
           /\ clients[k].class = saved_client.class
           /\ \A j \in 1..(k - 1) : clients[j].class # saved_client.class
    ELSE 0

\* mutant of remove: the matched window stays in the working set
remove_keeps(clients, index) == clients

\* Vec::remove(index)
remove(clients, index) ==
    [k \in 1..(Len(clients) - 1) |-> IF k < index THEN clients[k] ELSE clients[k + 1]]

\* mutant of workspace_cmd: the launch is not scoped to the saved workspace
workspace_cmd_unscoped(saved_client) ==
    <<"e", "x", "e", "c", " ">> \o resolve_command(saved_client.class)

\* format!("exec [workspace {} silent] {}", saved_client.workspace.id, command)
workspace_cmd(saved_client) ==
    LET raw_name == IF saved_client.initial_class # <<>>
                    THEN saved_client.initial_class
                    ELSE saved_client.class
    IN sExecWorkspace \o FormatInt(saved_client.workspace) \o sSilent
         \o resolve_command(raw_name)

\* restore_session, line 10: ipc::capture_state() queries the clients
restore_capture ==
    /\ prog = "restore" /\ pc = "start" /\ cpc = "idle"
    /\ pc' = "capturing"
    /\ BeginModuleCall("get_json", "capture", sClients)
    /\ UNCHANGED <<prog, result, snapshot, live, available_clients, idx, processed,
                   positionCalls, dispatchCalls, notified, launchFailed, client,
                   demoStep, envVars, listenVars>>

\* restore_session, lines 10-11: capture_state()? and the working set
restore_capture_return ==
    /\ pc = "capturing" /\ cpc = "ret"
    /\ EndCall
    /\ \E decoded \in BOOLEAN :
         IF ret.ok /\ decoded
         THEN /\ available_clients' = live
              /\ pc' = "loop"
              /\ result' = result
         ELSE /\ available_clients' = available_clients
              /\ pc' = "done"
              /\ result' = "ErrCapture"
    /\ UNCHANGED <<prog, snapshot, live, idx, processed, positionCalls, dispatchCalls,
                   notified, launchFailed, client, demoStep, envVars, listenVars>>

\* mutant of restore_matched: a failed position restoration is ignored
restore_matched_ignores ==
    /\ pc = "loop" /\ idx <= Len(snapshot)
    /\ LET saved_client == snapshot[idx]
           index == position(available_clients, saved_client)
       IN /\ index # 0
          /\ processed' = Append(processed, idx)
          /\ available_clients' = remove(available_clients, index)
          /\ \E restored \in BOOLEAN :
               /\ positionCalls' = Append(positionCalls,
                      [current_client |-> available_clients[index], saved |-> idx,
                       ok |-> restored])
               /\ IF restored
                  THEN idx' = idx + 1 /\ pc' = pc /\ result' = result
                  ELSE idx' = idx + 1 /\ pc' = pc /\ result' = result
    /\ UNCHANGED <<prog, snapshot, live, dispatchCalls, notified, launchFailed, client,
                   demoStep, callVars, envVars, listenVars>>

\* restore_session, lines 16-22: a live window of the class exists
restore_matched ==
    /\ pc = "loop" /\ idx <= Len(snapshot)
    /\ LET saved_client == snapshot[idx]
           index == position(available_clients, saved_client)
       IN /\ index # 0
          /\ processed' = Append(processed, idx)
          /\ available_clients' = remove(available_clients, index)
          /\ \E restored \in BOOLEAN :
               /\ positionCalls' = Append(positionCalls,
                      [current_client |-> available_clients[index], saved |-> idx,
                       ok |-> restored])
               /\ IF restored
                  THEN idx' = idx + 1 /\ pc' = pc /\ result' = result
                  ELSE idx' = idx /\ pc' = "done" /\ result' = "ErrPosition"
    /\ UNCHANGED <<prog, snapshot, live, dispatchCalls, notified, launchFailed, client,
                   demoStep, callVars, envVars, listenVars>>

\* restore_session, lines 24-46: no live window of the class; notify and launch
restore_missing ==
    /\ pc = "loop" /\ idx <= Len(snapshot)
    /\ LET saved_client == snapshot[idx] IN
          /\ position(available_clients, saved_client) = 0
          /\ processed' = Append(processed, idx)
          /\ notified' \in {"spawned", "failed"}
          /\ dispatchCalls' = Append(dispatchCalls,
                 [saved |-> idx, command |-> workspace_cmd(saved_client)])
          /\ BeginModuleCall("dispatch", "launch", workspace_cmd(saved_client))
    /\ pc' = "launching"
    /\ UNCHANGED <<prog, result, snapshot, live, available_clients, idx, positionCalls,
                   launchFailed, client, demoStep, envVars, listenVars>>

\* mutant of restore_launch_return: the launch's error is returned with ?
restore_launch_return_fatal ==
    /\ pc = "launching" /\ cpc = "ret"
    /\ EndCall
    /\ launchFailed' = ~ret.ok
    /\ notified' = "none"
    /\ idx' = idx + 1
    /\ pc' = IF ret.ok THEN "loop" ELSE "done"
    /\ result' = IF ret.ok THEN result ELSE "ErrLaunch"
    /\ UNCHANGED <<prog, snapshot, live, available_clients, processed,
                   positionCalls, dispatchCalls, client, demoStep, envVars, listenVars>>

\* restore_session, lines 46-49: the launch's result is printed, never returned
restore_launch_return ==
    /\ pc = "launching" /\ cpc = "ret"
    /\ EndCall
    /\ launchFailed' = ~ret.ok
    /\ notified' = "none"
    /\ idx' = idx + 1
    /\ pc' = "loop"
    /\ UNCHANGED <<prog, result, snapshot, live, available_clients, processed,
                   positionCalls, dispatchCalls, client, demoStep, envVars, listenVars>>

\* restore_session, line 52: the loop is over
restore_finish ==
    /\ pc = "loop" /\ idx > Len(snapshot)
    /\ pc' = "done"
    /\ result' = "Ok"
    /\ UNCHANGED <<prog, snapshot, live, available_clients, idx, processed, positionCalls,
                   dispatchCalls, notified, launchFailed, client, demoStep, callVars,
                   envVars, listenVars>>

\* ------------------------------------------------------------------ demo_commands
DemoKeys == <<sWorkspaces, sClients, sActivewindow>>

\* main.rs, line 22: HyprCommandClient::new()?
demo_new ==
    /\ prog = "demo" /\ pc = "start"
    /\ LET p == get_socket_path(env) IN
       IF p.ok
       THEN /\ client' = <<p.val>> /\ pc' = "demo_call" /\ result' = result
            /\ firstResolved' = [firstResolved EXCEPT !.demo = <<p.val>>]
       ELSE /\ client' = client /\ pc' = "done" /\ result' = "ErrClientNew"
            /\ firstResolved' = firstResolved
    /\ UNCHANGED <<prog, snapshot, live, available_clients, idx, processed, positionCalls,
                   dispatchCalls, notified, launchFailed, demoStep, cpc, cur, stream,
                   nconn, ret, ncalls, envVars, listenVars>>

\* main.rs, lines 26, 33, 40: client.get_workspaces / get_clients / get_active_window
demo_call ==
    /\ pc = "demo_call" /\ demoStep <= Len(DemoKeys)
    /\ pc' = "demo_wait"
    /\ BeginClientCall("get_json", "demo", DemoKeys[demoStep], client[1])
    /\ UNCHANGED <<prog, result, snapshot, live, available_clients, idx, processed,
                   positionCalls, dispatchCalls, notified, launchFailed, client,
                   demoStep, envVars, listenVars>>

\* main.rs, lines 26-43: either arm of the match only prints
demo_return ==
    /\ pc = "demo_wait" /\ cpc = "ret"
    /\ EndCall
    /\ demoStep' = demoStep + 1
    /\ pc' = "demo_call"
    /\ UNCHANGED <<prog, result, snapshot, live, available_clients, idx, processed,
                   positionCalls, dispatchCalls, notified, launchFailed, client, envVars,
                   listenVars>>

\* main.rs, line 45
demo_finish ==
    /\ pc = "demo_call" /\ demoStep > Len(DemoKeys)
    /\ pc' = "done"
    /\ result' = "Ok"
    /\ UNCHANGED <<prog, snapshot, live, available_clients, idx, processed, positionCalls,
                   dispatchCalls, notified, launchFailed, client, demoStep, callVars,
                   envVars, listenVars>>

\* ------------------------------------------------------------------ event decoder
n_workspace == <<"w","o","r","k","s","p","a","c","e">>
n_focusedmon == <<"f","o","c","u","s","e","d","m","o","n">>
n_activewindow == <<"a","c","t","i","v","e","w","i","n","d","o","w">>
n_openwindow == <<"o","p","e","n","w","i","n","d","o","w">>
n_closewindow == <<"c","l","o","s","e","w","i","n","d","o","w">>
n_movewindow == <<"m","o","v","e","w","i","n","d","o","w">>
n_windowtitle == <<"w","i","n","d","o","w","t","i","t","l","e">>
n_activelayout == <<"a","c","t","i","v","e","l","a","y","o","u","t">>
n_submap == <<"s","u","b","m","a","p">>
n_fullscreen == <<"f","u","l","l","s","c","r","e","e","n">>
n_monitoradded == <<"m","o","n","i","t","o","r","a","d","d","e","d">>
n_monitorremoved == <<"m","o","n","i","t","o","r","r","e","m","o","v","e","d">>
n_createworkspace == <<"c","r","e","a","t","e","w","o","r","k","s","p","a","c","e">>
n_destroyworkspace == <<"d","e","s","t","r","o","y","w","o","r","k","s","p","a","c","e">>
n_moveworkspace == <<"m","o","v","e","w","o","r","k","s","p","a","c","e">>

\* the first position at which pat (two characters) starts in s; 0 when absent
FindSep(s) ==
    IF \E k \in 1..(Len(s) - 1) : s[k] = ">" /\ s[k + 1] = ">"
    THEN CHOOSE k \in 1..(Len(s) - 1) :
           /\ s[k] = ">" /\ s[k + 1] = ">"
           /\ \A j \in 1..(k - 1) : ~(s[j] = ">" /\ s[j + 1] = ">")
    ELSE 0

\* line.splitn(2, ">>")
SplitSep(s) ==
    LET k == FindSep(s) IN
    IF k = 0 THEN <<s>> ELSE <<SubSeq(s, 1, k - 1), SubSeq(s, k + 2, Len(s))>>

\* mutant of FindComma: the last comma, as rsplitn would cut
FindComma_last(s) ==
    IF \E k \in 1..Len(s) : s[k] = ","
    THEN CHOOSE k \in 1..Len(s) : s[k] = "," /\ \A j \in (k + 1)..Len(s) : s[j] # ","
    ELSE 0

FindComma(s) ==
    IF \E k \in 1..Len(s) : s[k] = ","
    THEN CHOOSE k \in 1..Len(s) : s[k] = "," /\ \A j \in 1..(k - 1) : s[j] # ","
    ELSE 0

\* data.splitn(n, ','), n >= 1: at most n pieces, the last keeps the rest
RECURSIVE splitn(_, _)
splitn(s, n) ==
    LET k == FindComma(s) IN
    IF n <= 1 \/ k = 0 THEN <<s>>
    ELSE <<SubSeq(s, 1, k - 1)>> \o splitn(SubSeq(s, k + 1, Len(s)), n - 1)

IsDigit(c) == \E d \in 1..10 : DigitChars[d] = c
DigitValue(c) == (CHOOSE d \in 1..10 : DigitChars[d] = c) - 1

I32Max == (2^30 - 1) * 2 + 1

\* the digits' value accumulated as i32::from_str does, with checked_mul and
\* checked_add (sign = 1) or checked_sub (sign = -1): <<value>>, or <<>> on overflow
RECURSIVE Accumulate(_, _)
Accumulate(digits, sign) ==
    IF digits = <<>> THEN <<0>>
    ELSE LET pre == Accumulate(SubSeq(digits, 1, Len(digits) - 1), sign)
             d == DigitValue(digits[Len(digits)])
             lim == I32Max \div 10
         IN IF pre = <<>> THEN <<>>
            ELSE IF sign = 1
            THEN IF pre[1] > lim \/ (pre[1] = lim /\ d > I32Max % 10)
                 THEN <<>> ELSE <<pre[1] * 10 + d>>
            ELSE IF pre[1] < 0 - lim \/ (pre[1] = 0 - lim /\ d > (I32Max % 10) + 1)
                 THEN <<>> ELSE <<pre[1] * 10 - d>>

\* mutant of parse_i32: text that is no number counts as 0, as atoi would
parse_i32_lenient(s) ==
    LET signed == IF s = <<>> THEN FALSE ELSE s[1] \in {"+", "-"}
        digits == IF signed THEN Tail(s) ELSE s
        sign == IF signed THEN (IF s[1] = "-" THEN 0 - 1 ELSE 1) ELSE 1
    IN IF digits = <<>> THEN Ok(0)
       ELSE IF \E k \in 1..Len(digits) : ~IsDigit(digits[k])
       THEN Ok(0)
       ELSE IF Accumulate(digits, sign) = <<>> THEN Err("ParseIntError", <<>>)
       ELSE Ok(Accumulate(digits, sign)[1])

\* str::parse::<i32>: an optional sign, then one or more digits, within range
parse_i32(s) ==
    LET signed == IF s = <<>> THEN FALSE ELSE s[1] \in {"+", "-"}
        digits == IF signed THEN Tail(s) ELSE s
        sign == IF signed THEN (IF s[1] = "-" THEN 0 - 1 ELSE 1) ELSE 1
    IN IF digits = <<>> THEN Err("ParseIntError", <<>>)
       ELSE IF \E k \in 1..Len(digits) : ~IsDigit(digits[k])
       THEN Err("ParseIntError", <<>>)
       ELSE IF Accumulate(digits, sign) = <<>> THEN Err("ParseIntError", <<>>)
       ELSE Ok(Accumulate(digits, sign)[1])

Unknown(raw) == [kind |-> "Unknown", raw |-> raw]

\* HyprEvent::parse
parse(raw) ==
    LET parts == SplitSep(raw) IN
    IF Len(parts) # 2 THEN Unknown(raw)
    ELSE
    LET event_name == parts[1]
        data == parts[2]
        f2 == splitn(data, 2)
        f3 == splitn(data, 3)
        f4 == splitn(data, 4)
        id == parse_i32(f2[1])
    IN
    CASE event_name = n_workspace /\ Len(f2) = 2 /\ id.ok ->
           [kind |-> "WorkspaceChanged", workspace_id |-> id.val, workspace_name |-> f2[2]]
      [] event_name = n_focusedmon /\ Len(f2) = 2 ->
           [kind |-> "FocusedMonitor", monitor_name |-> f2[1], workspace_name |-> f2[2]]
      [] event_name = n_activewindow /\ Len(f2) = 2 ->
           [kind |-> "ActiveWindow", class |-> f2[1], title |-> f2[2]]
      [] event_name = n_openwindow /\ Len(f4) = 4 ->
           [kind |-> "WindowOpened", address |-> f4[1], workspace |-> f4[2],
            class |-> f4[3], title |-> f4[4]]
      [] event_name = n_closewindow ->
           [kind |-> "WindowClosed", address |-> data]
      [] event_name = n_movewindow /\ Len(f2) = 2 ->
           [kind |-> "WindowMoved", address |-> f2[1], workspace |-> f2[2]]
      [] event_name = n_windowtitle ->
           [kind |-> "WindowTitleChanged", address |-> data, title |-> <<>>]
      [] event_name = n_activelayout /\ Len(f2) = 2 ->
           [kind |-> "LayoutChanged", keyboard |-> f2[1], layout |-> f2[2]]
      [] event_name = n_submap ->
           [kind |-> "SubMapChanged", submap |-> data]
      [] event_name = n_fullscreen ->
           [kind |-> "Fullscreen", state |-> (data = <<"1">>)]
      [] event_name = n_monitoradded ->
           [kind |-> "MonitorAdded", monitor_name |-> data]
      [] event_name = n_monitorremoved ->
           [kind |-> "MonitorRemoved", monitor_name |-> data]
      [] event_name = n_createworkspace /\ Len(f2) = 2 /\ id.ok ->
           [kind |-> "CreateWorkspace", workspace_id |-> id.val, workspace_name |-> f2[2]]
      [] event_name = n_destroyworkspace /\ Len(f2) = 2 /\ id.ok ->
           [kind |-> "DestroyWorkspace", workspace_id |-> id.val, workspace_name |-> f2[2]]
      [] event_name = n_moveworkspace /\ Len(f3) = 3 /\ parse_i32(f3[1]).ok ->
           [kind |-> "MoveWorkspace", workspace_id |-> parse_i32(f3[1]).val,
            workspace_name |-> f3[2], monitor |-> f3[3]]
      [] OTHER -> Unknown(raw)

\* ------------------------------------------------------------------ specification
NoEvent == [kind |-> "none"]

ListenerOff ==
    /\ lpc = "off" /\ mode = "listen" /\ wire = <<>> /\ line = <<>> /\ event = NoEvent
    /\ lineLog = <<>> /\ sinkLog = <<>> /\ predLog = <<>> /\ sinkBusy = FALSE
    /\ lresult = "running" /\ accept = {} /\ lconns = 0

CallerOff ==
    /\ env \in InitEnvs /\ envChanges = 0
    /\ pc = "start" /\ result = "running"
    /\ available_clients = <<>> /\ idx = 1
    /\ processed = <<>> /\ positionCalls = <<>> /\ dispatchCalls = <<>>
    /\ notified = "none" /\ launchFailed = FALSE
    /\ client = <<>> /\ demoStep = 1
    /\ cpc = "idle" /\ cur = NoCall /\ stream = NoStream /\ nconn = 0 /\ ret = NoRet
    /\ firstResolved = [capture |-> <<>>, launch |-> <<>>, demo |-> <<>>] /\ ncalls = 0

Init ==
    /\ CallerOff
    /\ \/ prog = "restore" /\ snapshot \in Snapshots /\ live \in LiveSets
       \/ prog = "demo" /\ snapshot = <<>> /\ live = <<>>
    /\ ListenerOff

Next ==
    \/ restore_capture
    \/ restore_capture_return
    \/ restore_matched
    \/ restore_missing
    \/ restore_launch_return
    \/ restore_finish
    \/ demo_new
    \/ demo_call
    \/ demo_return
    \/ demo_finish
    \/ module_new
    \/ send_command_connect
    \/ send_command_write
    \/ send_command_shutdown
    \/ send_command_read
    \/ EnvChange

Spec == Init /\ [][Next]_vars

\* ------------------------------------------------------------------ event listener
\* IpcEventListener::get_socket_path: .../.socket2.sock
get_event_socket_path(e) ==
    IF e.XDG = <<>> THEN Err("NotFound", <<"XDG_RUNTIME_DIR not set">>)
    ELSE IF e.SIG = <<>> THEN Err("NotFound", <<"HYPRLAND_INSTANCE_SIGNATURE not set">>)
    ELSE Ok(<<e.XDG[1], "hypr", e.SIG[1], ".socket2.sock">>)

L_WS_NL == <<"w", "o", "r", "k", "s", "p", "a", "c", "e", ">", ">", "1", ",", "m", "a", "i", "n", "\n">>
L_WSBAD_NL == <<"w", "o", "r", "k", "s", "p", "a", "c", "e", ">", ">", "x", ",", "m", "a", "i", "n", "\n">>
L_OPEN_CRLF == <<"o", "p", "e", "n", "w", "i", "n", "d", "o", "w", ">", ">", "0", "x", "1", ",", "1", ",", "k", "i", "t", "t", "y", ",", "a", ",", "b", "\r", "\n">>
L_CLOSE_NL == <<"c", "l", "o", "s", "e", "w", "i", "n", "d", "o", "w", ">", ">", "0", "x", "1", "\n">>
L_NOSEP_NL == <<"f", "u", "l", "l", "s", "c", "r", "e", "e", "n", "\n">>
L_CUSTOM_EOF == <<"c", "u", "s", "t", "o", "m", "e", "v", "e", "n", "t", ">", ">", "s", "o", "m", "e", "d", "a", "t", "a">>
L_BADUTF_NL == <<"s", BadByte, "\n">>

\* what the peer writes for one line: the text and its terminator, or an
\* unterminated last piece
WireChunks ==
    { L_WS_NL,
      L_WSBAD_NL,
      L_OPEN_CRLF,
      L_CLOSE_NL,
      L_NOSEP_NL,
      L_CUSTOM_EOF,
      L_BADUTF_NL }

Terminated(chunk) == chunk # <<>> /\ chunk[Len(chunk)] = "\n"

\* the peer has not ended the stream: an unterminated piece is the last one
StreamOpen == IF wire = <<>> THEN TRUE ELSE Terminated(wire[Len(wire)])

\* BufRead::lines: drop the final "\n" and, only then, a "\r" before it
StripLineEnding(chunk) ==
    IF Terminated(chunk)
    THEN LET body == SubSeq(chunk, 1, Len(chunk) - 1) IN
         IF body # <<>> /\ body[Len(body)] = "\r"
         THEN SubSeq(body, 1, Len(body) - 1)
         ELSE body
    ELSE chunk

\* the predicates listen_filtered is run with; the first is main.rs' window filter
WindowKinds == {"WindowOpened", "WindowClosed", "WindowMoved", "ActiveWindow"}
Predicates == {WindowKinds, {}, {"Unknown", "WorkspaceChanged"}}
predicate(ev) == ev.kind \in accept

\* IpcEventListener::connect
listener_connect ==
    /\ lpc = "connect"
    /\ LET p == get_event_socket_path(env) IN
       \E ok \in BOOLEAN :
         IF p.ok /\ ok
         THEN lpc' = "read" /\ lconns' = lconns + 1 /\ lresult' = lresult
         ELSE lpc' = "done" /\ lconns' = lconns /\ lresult' = "Err"
    /\ UNCHANGED <<mode, wire, line, event, lineLog, sinkLog, predLog, sinkBusy, accept,
                   cmdVars>>

\* reader.lines().next() yields a line
listen_read_line ==
    /\ lpc = "read"
    /\ Len(wire) < MaxLines
    /\ StreamOpen
    /\ \E chunk \in WireChunks :
         /\ wire' = Append(wire, chunk)
         /\ IF Utf8Valid(chunk)
            THEN /\ line' = StripLineEnding(chunk)
                 /\ lineLog' = Append(lineLog, StripLineEnding(chunk))
                 /\ lpc' = "parse"
                 /\ lresult' = lresult
            ELSE /\ line' = line
                 /\ lineLog' = lineLog
                 /\ lpc' = "done"
                 /\ lresult' = "Err"
    /\ UNCHANGED <<mode, event, sinkLog, predLog, sinkBusy, accept, lconns, cmdVars>>

\* mutant of listen_read_eof: a closed connection is opened again
listen_read_eof_reconnects ==
    /\ lpc = "read"
    /\ lpc' = "connect"
    /\ lresult' = lresult
    /\ UNCHANGED <<mode, wire, line, event, lineLog, sinkLog, predLog, sinkBusy, accept,
                   lconns, cmdVars>>

\* reader.lines().next() is None: the peer closed; the loop ends and Ok(()) returns
listen_read_eof ==
    /\ lpc = "read"
    /\ lpc' = "done"
    /\ lresult' = "Ok"
    /\ UNCHANGED <<mode, wire, line, event, lineLog, sinkLog, predLog, sinkBusy, accept,
                   lconns, cmdVars>>

\* reader.lines().next() is Some(Err(e)): line? returns the error
listen_read_error ==
    /\ lpc = "read"
    /\ StreamOpen
    /\ lpc' = "done"
    /\ lresult' = "Err"
    /\ UNCHANGED <<mode, wire, line, event, lineLog, sinkLog, predLog, sinkBusy, accept,
                   lconns, cmdVars>>

\* let event = HyprEvent::parse(&line)
listen_parse ==
    /\ lpc = "parse"
    /\ event' = parse(line)
    /\ lpc' = IF mode = "listen" THEN "callback" ELSE "predicate"
    /\ UNCHANGED <<mode, wire, line, lineLog, sinkLog, predLog, sinkBusy, lresult, accept,
                   lconns, cmdVars>>

\* mutant of listen_predicate: an undecodable line goes to the sink unasked
listen_predicate_passes_unknown ==
    /\ lpc = "predicate"
    /\ predLog' = IF event.kind = "Unknown" THEN predLog ELSE Append(predLog, event)
    /\ lpc' = IF event.kind = "Unknown" \/ predicate(event) THEN "callback" ELSE "read"
    /\ UNCHANGED <<mode, wire, line, event, lineLog, sinkLog, sinkBusy, lresult, accept,
                   lconns, cmdVars>>

\* listen_filtered: if predicate(&event)
listen_predicate ==
    /\ lpc = "predicate"
    /\ predLog' = Append(predLog, event)
    /\ lpc' = IF predicate(event) THEN "callback" ELSE "read"
    /\ UNCHANGED <<mode, wire, line, event, lineLog, sinkLog, sinkBusy, lresult, accept,
                   lconns, cmdVars>>

\* mutant of listen_callback: undecodable lines are not passed to the sink
listen_callback_drops ==
    /\ lpc = "callback"
    /\ sinkLog' = IF event.kind = "Unknown" THEN sinkLog ELSE Append(sinkLog, event)
    /\ sinkBusy' = TRUE
    /\ lpc' = "in_callback"
    /\ UNCHANGED <<mode, wire, line, event, lineLog, predLog, lresult, accept, lconns,
                   cmdVars>>

\* callback(event): the call is entered
listen_callback ==
    /\ lpc = "callback"
    /\ sinkLog' = Append(sinkLog, event)
    /\ sinkBusy' = TRUE
    /\ lpc' = "in_callback"
    /\ UNCHANGED <<mode, wire, line, event, lineLog, predLog, lresult, accept, lconns,
                   cmdVars>>

\* callback(event) returns; the loop takes the next line
listen_callback_return ==
    /\ lpc = "in_callback"
    /\ sinkBusy' = FALSE
    /\ lpc' = "read"
    /\ UNCHANGED <<mode, wire, line, event, lineLog, sinkLog, predLog, lresult, accept,
                   lconns, cmdVars>>

InitListen ==
    /\ CallerOff
    /\ prog = "listener" /\ snapshot = <<>> /\ live = <<>>
    /\ lpc = "connect" /\ wire = <<>> /\ line = <<>> /\ event = NoEvent
    /\ lineLog = <<>> /\ sinkLog = <<>> /\ predLog = <<>> /\ sinkBusy = FALSE
    /\ lresult = "running" /\ lconns = 0
    /\ \/ mode = "listen" /\ accept = {}
       \/ mode = "listen_filtered" /\ accept \in Predicates

NextListen ==
    \/ listener_connect
    \/ listen_read_line
    \/ listen_read_eof
    \/ listen_read_error
    \/ listen_parse
    \/ listen_predicate
    \/ listen_callback
    \/ listen_callback_return

SpecListen == InitListen /\ [][NextListen]_vars

\* ------------------------------------------------------------------ decoder alone
\* the names of the decoder's table
KnownNames ==
    { n_workspace, n_focusedmon, n_activewindow, n_openwindow, n_closewindow,
      n_movewindow, n_windowtitle, n_activelayout, n_submap, n_fullscreen,
      n_monitoradded, n_monitorremoved, n_createworkspace, n_destroyworkspace,
      n_moveworkspace }

\* lines for the decoder: a name (of the table, empty, or a table name with one
\* more letter), then ">>", ">" or nothing, then a data part of digits, signs,
\* letters and commas, then nothing or a second ">>"
DataChars == {"1", "-", "a", ","}
DataParts == SeqsUpTo(DataChars, MaxData)
LineNames == KnownNames \cup {<<>>, n_workspace \o <<"s">>}
LineSeps == {<<">", ">">>, <<">">>, <<>>}
LineEnds == {<<>>, <<">", ">">>}
ParseInputs ==
    {nm \o sp \o dt \o en : nm \in LineNames, sp \in LineSeps, dt \in DataParts,
                            en \in LineEnds}

\* let event = HyprEvent::parse(&line), on a line of its own
decode_line ==
    /\ prog = "decoder" /\ lpc = "parse"
    /\ event' = parse(line)
    /\ lpc' = "done"
    /\ UNCHANGED <<mode, wire, line, lineLog, sinkLog, predLog, sinkBusy, lresult, accept,
                   lconns, cmdVars>>

InitParse ==
    /\ CallerOff /\ env = [XDG |-> <<>>, SIG |-> <<>>]
    /\ prog = "decoder" /\ snapshot = <<>> /\ live = <<>>
    /\ lpc = "parse" /\ mode = "listen" /\ wire = <<>> /\ event = NoEvent
    /\ lineLog = <<>> /\ sinkLog = <<>> /\ predLog = <<>> /\ sinkBusy = FALSE
    /\ lresult = "running" /\ accept = {} /\ lconns = 0
    /\ line \in ParseInputs

NextParse == decode_line

SpecParse == InitParse /\ [][NextParse]_vars

\* ------------------------------------------------------------------ properties
Occurrences(seq, x) == Cardinality({k \in 1..Len(seq) : seq[k] = x})
SavedIn(log) == {log[k].saved : k \in 1..Len(log)}
ClaimsDistinct ==
    \A a, b \in 1..Len(positionCalls) :
        a # b => /\ positionCalls[a].current_client.address
                      # positionCalls[b].current_client.address
                 /\ positionCalls[a].saved # positionCalls[b].saved

\* the descriptor at the loop position has an equal-class window in the working set
HasMatch ==
    \E k \in 1..Len(available_clients) : available_clients[k].class = snapshot[idx].class
FirstMatch ==
    CHOOSE k \in 1..Len(available_clients) :
      /\ available_clients[k].class = snapshot[idx].class
      /\ \A j \in 1..(k - 1) : available_clients[j].class # snapshot[idx].class
Last(seq) == seq[Len(seq)]
Extends(new, old) == Len(new) = Len(old) + 1 /\ SubSeq(new, 1, Len(old)) = old

\* C1, as stated: when a restoration run that obtained the live windows is over,
\* every saved descriptor was processed exactly once and no live window was
\* claimed by two descriptors.
C1_ProcessedExactlyOnce ==
    (prog = "restore" /\ pc = "done" /\ result # "ErrCapture") =>
        /\ \A i \in 1..Len(snapshot) : Occurrences(processed, i) = 1
        /\ ClaimsDistinct

\* C1, amended: the descriptors are processed in snapshot order and each at most
\* once; all of them exactly once when the run returns success; a failed position
\* restoration leaves the descriptors after the failing one unprocessed; every
\* live window is claimed by at most one descriptor, and only live windows are.
C1_ProcessedAtMostOnce ==
    /\ processed = [k \in 1..Len(processed) |-> k]
    /\ Len(processed) <= Len(snapshot)
    /\ (pc = "done" /\ result = "Ok") => Len(processed) = Len(snapshot)
    /\ (pc = "done" /\ result = "ErrPosition") => Len(processed) = idx
    /\ ClaimsDistinct
    /\ \A k \in 1..Len(positionCalls) :
         \E w \in 1..Len(live) : live[w] = positionCalls[k].current_client

C1_Witness ==
    /\ pc = "done" /\ result = "Ok"
    /\ Len(processed) = 2 /\ Len(positionCalls) = 1 /\ Len(dispatchCalls) = 1
    /\ Len(live) = 2

\* C2: a step that processes a descriptor while the working set holds a window of
\* exactly its class removes the first such window and only that one, passes it
\* with the descriptor to position restoration, and begins no dispatch; a
\* descriptor that was matched never has a launch.
C2_ClaimsFirstEqualClass ==
    /\ [](SavedIn(positionCalls) \cap SavedIn(dispatchCalls) = {})
    /\ [][ (processed' # processed /\ HasMatch) =>
             LET k == FirstMatch IN
             /\ Len(available_clients') = Len(available_clients) - 1
             /\ \A j \in 1..Len(available_clients') :
                  available_clients'[j] =
                    IF j < k THEN available_clients[j] ELSE available_clients[j + 1]
             /\ Extends(positionCalls', positionCalls)
             /\ Last(positionCalls').current_client = available_clients[k]
             /\ Last(positionCalls').saved = idx
             /\ dispatchCalls' = dispatchCalls
             /\ ncalls' = ncalls /\ cpc' = "idle" ]_vars

\* a window was claimed whose title differs from the descriptor's, although a
\* later window of the class carries the descriptor's title
C2_Witness ==
    \E k \in 1..Len(positionCalls) :
      LET c == positionCalls[k] IN
      /\ c.current_client.title # snapshot[c.saved].title
      /\ \E j \in 1..Len(available_clients) :
           /\ available_clients[j].class = c.current_client.class
           /\ available_clients[j].title = snapshot[c.saved].title

C3_WorkspaceText(id) ==
    CASE id = 1 -> <<"1">>
      [] id = 12 -> <<"1", "2">>
      [] id = 0 - 98 -> <<"-", "9", "8">>
C3_IsExecFor(cmd, saved_client) ==
    LET prefix == sExecWorkspace \o C3_WorkspaceText(saved_client.workspace) \o sSilent
    IN Len(cmd) >= Len(prefix) /\ SubSeq(cmd, 1, Len(prefix)) = prefix

\* C3: a step that processes a descriptor while no window of the working set has
\* its class calls dispatch once, with exec [workspace <saved id> silent] <command>,
\* calls position restoration not at all and leaves the working set as it is, also
\* while the launch is under way; no descriptor is ever launched twice.
C3_MissingLaunchesOnce ==
    /\ [](\A i \in 1..Len(snapshot) :
            Cardinality({k \in 1..Len(dispatchCalls) : dispatchCalls[k].saved = i}) <= 1)
    /\ [][ (processed' # processed /\ ~HasMatch) =>
             /\ Extends(dispatchCalls', dispatchCalls)
             /\ Last(dispatchCalls').saved = idx
             /\ C3_IsExecFor(Last(dispatchCalls').command, snapshot[idx])
             /\ cur'.fn = "dispatch" /\ cur'.arg = Last(dispatchCalls').command
             /\ ncalls' = ncalls + 1
             /\ positionCalls' = positionCalls
             /\ available_clients' = available_clients ]_vars
    /\ [][ pc = "launching" =>
             /\ available_clients' = available_clients
             /\ positionCalls' = positionCalls
             /\ dispatchCalls' = dispatchCalls ]_vars

\* the second of two descriptors of one class is launched: the only window of the
\* class was claimed by the first
C3_Witness ==
    /\ Len(positionCalls) = 1 /\ Len(dispatchCalls) = 1
    /\ positionCalls[1].saved = 1 /\ dispatchCalls[1].saved = 2
    /\ snapshot[2].class = positionCalls[1].current_client.class
    /\ pc = "launching"

\* C4: a failed position restoration is the last thing the run does: the run is
\* over with that failure, the failing descriptor is the last one processed, it
\* was tried once, nothing was launched or restored after it, and the window
\* claimed for it is no longer in the working set; a finished run changes nothing.
C4_PositionFailureIsFatal ==
    /\ [](\A k \in 1..Len(positionCalls) :
            ~positionCalls[k].ok =>
              /\ k = Len(positionCalls)
              /\ pc = "done" /\ result = "ErrPosition" /\ cpc = "idle"
              /\ Len(processed) = positionCalls[k].saved
              /\ \A d \in SavedIn(dispatchCalls) : d < positionCalls[k].saved
              /\ Cardinality({j \in 1..Len(positionCalls) :
                     positionCalls[j].saved = positionCalls[k].saved}) = 1
              /\ \A j \in 1..Len(available_clients) :
                     available_clients[j] # positionCalls[k].current_client)
    /\ [][ pc = "done" => UNCHANGED <<callerVars, callVars>> ]_vars

\* the first of two descriptors failed to restore while windows were left
C4_Witness ==
    /\ Len(snapshot) = 2 /\ Len(positionCalls) = 1
    /\ ~positionCalls[1].ok /\ positionCalls[1].saved = 1
    /\ available_clients # <<>>

\* C5: a launch whose dispatch returned an error is printed and skipped: the loop
\* moves to the next descriptor, no second call is made for it, and the run
\* returns success unless the capture or a position restoration failed; a
\* notification that could not be spawned is followed by the dispatch all the same.
C5_LaunchFailureIsSkipped ==
    /\ []( /\ notified = "failed" =>
                /\ pc = "launching" /\ dispatchCalls # <<>>
                /\ Last(dispatchCalls).saved = idx
                /\ cur.fn = "dispatch" /\ cur.caller = "launch"
           /\ (prog = "restore" /\ pc = "done" /\ result # "Ok") =>
                \/ result = "ErrCapture"
                \/ result = "ErrPosition" /\ positionCalls # <<>>
                     /\ ~Last(positionCalls).ok
           /\ (pc = "done" /\ result = "Ok" /\ prog = "restore") =>
                processed = [k \in 1..Len(snapshot) |-> k]
           /\ prog = "restore" =>
                ncalls = (IF pc = "start" THEN 0 ELSE 1) + Len(dispatchCalls) )
    /\ [][ (pc = "launching" /\ cpc = "ret" /\ ~ret.ok) =>
             /\ pc' = "loop" /\ idx' = idx + 1 /\ result' = "running"
             /\ launchFailed'
             /\ dispatchCalls' = dispatchCalls /\ ncalls' = ncalls ]_vars

\* after a failed launch the next descriptor is being launched, its notification
\* having failed to spawn
C5_Witness ==
    /\ pc = "launching" /\ launchFailed /\ Len(dispatchCalls) = 2
    /\ notified = "failed" /\ cpc = "connect"

FullCycle == <<"connect", "write", "shutdown", "read">>
IsPrefix(a, b) == Len(a) <= Len(b) /\ SubSeq(b, 1, Len(a)) = a
Ops(st) == {st.ops[k] : k \in 1..Len(st.ops)}
\* the bytes the current call has to send
C6_Expected ==
    IF cur.caller = "launch" THEN sDispatch \o Last(dispatchCalls).command
    ELSE <<"j", "/">> \o cur.arg

\* C6: the operations on a command connection are connect, write, shutdown, read
\* in this order, each at most once; a successful call did all four and wrote
\* exactly its command; nothing is written once the write side is shut down;
\* every call that connects gets a connection no earlier call used, and an
\* operation is only ever done on the connection of the call in progress.
C6_CycleOrder ==
    /\ []( /\ IsPrefix(stream.ops, FullCycle)
           /\ (cpc = "ret" /\ ret.ok) => stream.ops = FullCycle
           /\ stream.open <=> cpc \in {"write", "shutdown", "read"}
           /\ stream.open => stream.id = nconn /\ stream.path = cur.path
           /\ stream.ops # <<>> => IsPrefix(stream.sent, C6_Expected)
           /\ "shutdown" \in Ops(stream) => stream.sent = C6_Expected
           /\ (stream.recv # <<>> \/ stream.rerr) => stream.ops = FullCycle
           /\ nconn <= ncalls )
    /\ [][ stream' # stream =>
             \/ cpc = "ret" /\ cpc' = "idle" /\ stream' = NoStream /\ nconn' = nconn
             \/ /\ stream.ops = <<>> /\ stream'.ops = <<"connect">>
                /\ stream'.id = nconn + 1 /\ nconn' = nconn + 1 /\ ncalls' = ncalls
             \/ /\ stream.open /\ stream'.id = stream.id /\ ncalls' = ncalls
                /\ nconn' = nconn
                /\ Extends(stream'.ops, stream.ops)
                /\ "shutdown" \in Ops(stream) => stream'.sent = stream.sent ]_vars

\* the second query of one client instance completed on a connection of its own
C6_Witness ==
    /\ prog = "demo" /\ cpc = "ret" /\ ret.ok
    /\ stream.ops = FullCycle /\ stream.id = 2 /\ ncalls = 2

\* C7: a failed call stops where it failed: an unresolved endpoint before any
\* connection attempt, a refused connection before any write, a failed write or
\* shutdown before any read; a call makes at most one connection attempt; when
\* either environment variable is missing the resolution step itself fails; a
\* returned call is over, and the callers begin no second call for it.
C7_FailureEndsCall ==
    /\ []( /\ cur.attempts <= 1
           /\ (cpc = "ret" /\ ~ret.ok) =>
                /\ ~stream.open
                /\ CASE ret.kind = "SocketNotFound" ->
                          cur.attempts = 0 /\ stream = NoStream /\ cur.path = <<>>
                     [] ret.kind = "ConnectionFailed" ->
                          cur.attempts = 1 /\ stream = NoStream
                     [] ret.kind = "WriteFailed" ->
                          /\ stream.ops \in {<<"connect", "write">>,
                                             <<"connect", "write", "shutdown">>}
                          /\ stream.recv = <<>> /\ ~stream.rerr
                     [] ret.kind = "ReadFailed" -> stream.ops = FullCycle
                     [] OTHER -> FALSE
           /\ prog = "restore" =>
                ncalls = (IF pc = "start" THEN 0 ELSE 1) + Len(dispatchCalls)
           /\ prog = "demo" =>
                ncalls = (IF pc = "demo_wait" THEN demoStep ELSE demoStep - 1) )
    /\ [][ (cpc = "new" /\ (env.XDG = <<>> \/ env.SIG = <<>>)) =>
             /\ cpc' = "ret" /\ ~ret'.ok /\ ret'.kind = "SocketNotFound"
             /\ cur'.attempts = 0 /\ nconn' = nconn /\ stream' = NoStream ]_vars
    /\ [][ cpc = "ret" =>
             /\ cpc' = "idle" /\ cur' = NoCall /\ stream' = NoStream
             /\ nconn' = nconn /\ ncalls' = ncalls ]_vars

\* a launch found the endpoint unresolved
C7_Witness ==
    /\ cpc = "ret" /\ ret.kind = "SocketNotFound" /\ cur.caller = "launch"
    /\ cur.attempts = 0

\* C8, as stated: a caller's command calls all use the socket path resolved for
\* its first call, whatever happens to the environment afterwards; so every
\* launch of a restoration run goes to the endpoint of the run's first launch.
C8_ResolvedOnce ==
    \A c \in {"capture", "launch", "demo"} :
        (cur.caller = c /\ cur.path # <<>> /\ firstResolved[c] # <<>>) =>
            cur.path = firstResolved[c][1]

\* C9: a call whose cycle met no transport error returns success with exactly
\* the peer's text, never CommandFailed; restore_session prints no failure for a
\* launch that returned success and moves on.
C9_ReplyIsSuccess ==
    /\ []( /\ ret.kind # "CommandFailed"
           /\ (cpc = "ret" /\ stream.ops = FullCycle /\ ~stream.rerr
                 /\ Utf8Valid(stream.recv)) =>
                ret.ok /\ ret.val = stream.recv )
    /\ [][ (pc = "launching" /\ cpc = "ret" /\ ret.ok) =>
             /\ ~launchFailed'
             /\ pc' = "loop" /\ idx' = idx + 1 /\ result' = "running" ]_vars

\* a launch was answered with "unknown request" and returns success
C9_Witness ==
    /\ pc = "launching" /\ cpc = "ret" /\ cur.caller = "launch"
    /\ ret.ok /\ ret.val = sUnknownRequest /\ stream.recv = sUnknownRequest

\* C10: under listen the sink has been called with the decoded event of every
\* line the reader yielded, in that order, once each, the line in hand excepted;
\* each yielded line is what the peer sent without its terminator; a line is
\* taken and decoded only when no sink call is under way and all earlier lines
\* have been delivered; the predicate is never consulted.
C10_SinkPerLineInOrder ==
    /\ []( mode = "listen" =>
             /\ Len(sinkLog) = Len(lineLog) - (IF lpc \in {"parse", "callback"} THEN 1 ELSE 0)
             /\ \A k \in 1..Len(sinkLog) : sinkLog[k] = parse(lineLog[k])
             /\ sinkBusy <=> lpc = "in_callback"
             /\ lpc = "parse" => line = Last(lineLog)
             /\ lpc \in {"callback", "in_callback"} => event = parse(Last(lineLog))
             /\ Len(lineLog) <= Len(wire)
             /\ \A k \in 1..Len(lineLog) :
                  wire[k] \in {lineLog[k] \o <<"\n">>, lineLog[k] \o <<"\r", "\n">>,
                               lineLog[k]}
             /\ predLog = <<>> )
    /\ [][ (mode = "listen" /\ lineLog' # lineLog) =>
             /\ ~sinkBusy /\ Len(sinkLog) = Len(lineLog)
             /\ Extends(lineLog', lineLog) ]_vars

\* three lines were delivered, an undecodable one among them
C10_Witness ==
    /\ mode = "listen" /\ lpc = "read" /\ Len(sinkLog) = 3
    /\ sinkLog[1].kind = "WindowOpened" /\ sinkLog[2].kind = "Unknown"
    /\ sinkLog[3].kind = "WorkspaceChanged"

\* the events of seq the predicate accepts, in the order of seq
Accepted(seq) == SelectSeq(seq, predicate)

\* C11: under listen_filtered every line the reader yielded is decoded and the
\* predicate is asked about its event exactly once, in wire order, the line in
\* hand excepted; the sink calls are exactly the accepted events in that order,
\* the accepted one about to be delivered excepted; the sink is entered only with
\* the event just accepted; lines are taken as under listen.
C11_FilteredIsSubsequence ==
    /\ []( mode = "listen_filtered" =>
             /\ Len(predLog) = Len(lineLog) - (IF lpc \in {"parse", "predicate"} THEN 1 ELSE 0)
             /\ \A k \in 1..Len(predLog) : predLog[k] = parse(lineLog[k])
             /\ sinkLog = IF lpc = "callback"
                          THEN SubSeq(Accepted(predLog), 1, Len(Accepted(predLog)) - 1)
                          ELSE Accepted(predLog)
             /\ lpc \in {"callback", "in_callback"} =>
                  /\ predicate(event) /\ event = Last(predLog)
             /\ lpc = "predicate" => event = parse(Last(lineLog))
             /\ sinkBusy <=> lpc = "in_callback"
             /\ Len(lineLog) <= Len(wire)
             /\ \A k \in 1..Len(lineLog) :
                  wire[k] \in {lineLog[k] \o <<"\n">>, lineLog[k] \o <<"\r", "\n">>,
                               lineLog[k]} )
    /\ [][ (mode = "listen_filtered" /\ lineLog' # lineLog) =>
             /\ ~sinkBusy /\ Len(predLog) = Len(lineLog)
             /\ Extends(lineLog', lineLog) ]_vars
    /\ [][ (mode = "listen_filtered" /\ sinkLog' # sinkLog) =>
             /\ predicate(event) /\ sinkLog' = Append(sinkLog, event)
             /\ predLog' = predLog ]_vars

\* of three lines the window filter let the second through and rejected an
\* undecodable first and a workspace change after it
C11_Witness ==
    /\ mode = "listen_filtered" /\ accept = WindowKinds /\ lpc = "read"
    /\ Len(predLog) = 3 /\ Len(sinkLog) = 1
    /\ predLog[1].kind = "Unknown" /\ predLog[2].kind = "WindowOpened"
    /\ predLog[3].kind = "WorkspaceChanged" /\ sinkLog[1] = predLog[2]

\* C12: a listener call that got its connection returns only from the read, and
\* only on a read that yielded no line: end-of-stream, which returns Ok(()), or
\* an I/O error, which returns the error; a read that yields a line never ends
\* the call, nor does decoding, the predicate or the sink; once the peer has
\* closed, the next read ends the call with Ok(()); after the return nothing
\* happens any more: no sink call, no predicate call, no second connection; the
\* event endpoint is connected to at most once.
C12_EndsOnlyOnEofOrError ==
    /\ []( /\ lconns <= 1
           /\ lpc = "done" <=> lresult # "running"
           /\ lpc = "done" => ~sinkBusy
           /\ (lpc = "done" /\ lconns = 0) => lresult = "Err" /\ sinkLog = <<>> )
    /\ [][ (lpc' = "done" /\ lconns' = 1) =>
             /\ lpc = "read"
             /\ lineLog' = lineLog /\ sinkLog' = sinkLog /\ predLog' = predLog
             /\ lresult' \in {"Ok", "Err"}
             /\ wire' # wire => ~Utf8Valid(Last(wire')) /\ lresult' = "Err" ]_vars
    /\ [][ (lpc = "read" /\ ~StreamOpen) => lpc' = "done" /\ lresult' = "Ok" ]_vars
    /\ [][ lineLog' # lineLog => lpc' = "parse" /\ lresult' = "running" ]_vars
    /\ [][ (lpc = "parse" \/ lpc = "predicate" \/ lpc = "callback" \/ lpc = "in_callback") =>
             lpc' # "done" /\ lconns' = lconns ]_vars
    /\ [][ lpc # "done" ]_vars

\* an I/O error after two delivered events ended the call with the error
C12_Witness ==
    /\ lpc = "done" /\ lconns = 1 /\ lresult = "Err"
    /\ Len(sinkLog) = 2 /\ Len(wire) = 2 /\ Len(lineLog) = 2

\* ">>" stands at position k of l
IsSepAt(l, k) == k >= 1 /\ k < Len(l) /\ l[k] = ">" /\ l[k + 1] = ">"
HasSep(l) == \E k \in 1..Len(l) : IsSepAt(l, k)
\* where the first ">>" of l stands
FirstSepAt(l) == CHOOSE k \in 1..Len(l) : IsSepAt(l, k) /\ \A j \in 1..(k - 1) : ~IsSepAt(l, j)
NamePart(l) == SubSeq(l, 1, FirstSepAt(l) - 1)
DataPart(l) == SubSeq(l, FirstSepAt(l) + 2, Len(l))
CommaPositions(d) == {k \in 1..Len(d) : d[k] = ","}
\* the position of the j-th comma of d
NthComma(d, j) ==
    CHOOSE k \in CommaPositions(d) : Cardinality({i \in CommaPositions(d) : i < k}) = j - 1
\* the field count declared for an event name
Arity(nm) ==
    CASE nm = n_openwindow -> 4
      [] nm = n_moveworkspace -> 3
      [] nm \in {n_workspace, n_focusedmon, n_activewindow, n_movewindow, n_activelayout,
                 n_createworkspace, n_destroyworkspace} -> 2
      [] OTHER -> 1
\* the names whose first field is declared i32
NumericFirst == {n_workspace, n_createworkspace, n_destroyworkspace, n_moveworkspace}
\* d cut at its first n - 1 commas
Pieces(d, n) ==
    [j \in 1..n |->
        SubSeq(d, IF j = 1 THEN 1 ELSE NthComma(d, j - 1) + 1,
                  IF j = n THEN Len(d) ELSE NthComma(d, j) - 1)]
FirstField(d) ==
    IF CommaPositions(d) = {} THEN d ELSE SubSeq(d, 1, NthComma(d, 1) - 1)
\* decimal text of an integer: an optional sign and one digit or more
IsIntegerText(f) ==
    /\ f # <<>>
    /\ LET body == IF f[1] \in {"+", "-"} THEN Tail(f) ELSE f IN
         body # <<>> /\ \A k \in 1..Len(body) : IsDigit(body[k])
RECURSIVE DecimalValue(_)
DecimalValue(ds) ==
    IF ds = <<>> THEN 0
    ELSE DecimalValue(SubSeq(ds, 1, Len(ds) - 1)) * 10 + DigitValue(ds[Len(ds)])
IntegerValue(f) ==
    IF f[1] = "-" THEN 0 - DecimalValue(Tail(f))
    ELSE IF f[1] = "+" THEN DecimalValue(Tail(f))
    ELSE DecimalValue(f)
EventKinds ==
    {"WorkspaceChanged", "FocusedMonitor", "ActiveWindow", "WindowOpened", "WindowClosed",
     "WindowMoved", "WindowTitleChanged", "LayoutChanged", "SubMapChanged", "Fullscreen",
     "MonitorAdded", "MonitorRemoved", "CreateWorkspace", "DestroyWorkspace",
     "MoveWorkspace", "Unknown"}

\* the line has no ">>", or a name outside the table, or fewer fields than its
\* kind declares, or text that is no integer in a field declared i32
Malformed(l) ==
    IF ~HasSep(l) THEN TRUE
    ELSE \/ NamePart(l) \notin KnownNames
         \/ Cardinality(CommaPositions(DataPart(l))) < Arity(NamePart(l)) - 1
         \/ /\ NamePart(l) \in NumericFirst
            /\ ~IsIntegerText(FirstField(DataPart(l)))

\* C13: HyprEvent::parse gives a value for every line, and for a line without
\* ">>", with a name outside the table, with fewer fields than its kind declares
\* or with text that is no integer in a field declared i32 that value is Unknown
\* with the line itself as raw; an Unknown always carries the whole line.
C13_MalformedIsUnknown ==
    (prog = "decoder" /\ lpc = "done") =>
        /\ event.kind \in EventKinds
        /\ Malformed(line) => event = Unknown(line)
        /\ event.kind = "Unknown" => event = Unknown(line)

\* "workspace>>a,1" was decoded: the id field is no number
C13_Witness ==
    /\ prog = "decoder" /\ lpc = "done"
    /\ line = n_workspace \o <<">", ">", "a", ",", "1">>
    /\ event.kind = "Unknown" /\ event.raw = line

\* the names of the kinds with more than one field on the wire
MultiField ==
    {n_workspace, n_focusedmon, n_activewindow, n_openwindow, n_movewindow,
     n_activelayout, n_createworkspace, n_destroyworkspace, n_moveworkspace}
\* the variant an event name stands for
KindOf(nm) ==
    CASE nm = n_workspace -> "WorkspaceChanged"
      [] nm = n_focusedmon -> "FocusedMonitor"
      [] nm = n_activewindow -> "ActiveWindow"
      [] nm = n_openwindow -> "WindowOpened"
      [] nm = n_movewindow -> "WindowMoved"
      [] nm = n_activelayout -> "LayoutChanged"
      [] nm = n_createworkspace -> "CreateWorkspace"
      [] nm = n_destroyworkspace -> "DestroyWorkspace"
      [] nm = n_moveworkspace -> "MoveWorkspace"
\* the fields of a typed multi-field variant in the order of their declaration
FieldsOf(ev) ==
    CASE ev.kind = "WorkspaceChanged" -> <<ev.workspace_id, ev.workspace_name>>
      [] ev.kind = "FocusedMonitor" -> <<ev.monitor_name, ev.workspace_name>>
      [] ev.kind = "ActiveWindow" -> <<ev.class, ev.title>>
      [] ev.kind = "WindowOpened" -> <<ev.address, ev.workspace, ev.class, ev.title>>
      [] ev.kind = "WindowMoved" -> <<ev.address, ev.workspace>>
      [] ev.kind = "LayoutChanged" -> <<ev.keyboard, ev.layout>>
      [] ev.kind = "CreateWorkspace" -> <<ev.workspace_id, ev.workspace_name>>
      [] ev.kind = "DestroyWorkspace" -> <<ev.workspace_id, ev.workspace_name>>
      [] ev.kind = "MoveWorkspace" -> <<ev.workspace_id, ev.workspace_name, ev.monitor>>
\* the pieces of the data part as the variant of nm holds them: the i32 field
\* by its value, the others as text
ExpectedFields(nm, d) ==
    LET ps == Pieces(d, Arity(nm)) IN
    [j \in 1..Arity(nm) |->
        IF j = 1 /\ nm \in NumericFirst THEN IntegerValue(ps[1]) ELSE ps[j]]

====
